---- MODULE Spec2Model ----
(***************************************************************************)
(* Model of aws_emr_launch/control_plane/lambda_sources/apis/              *)
(* get_list_apis.py: six Lambda handlers (list + get for EMR profiles,     *)
(* cluster configurations and launch functions) reading JSON documents     *)
(* from the SSM parameter store.                                           *)
(*                                                                         *)
(* Python strings that the code composes (paths, keys, messages, tokens)   *)
(* are sequences of one-character strings, so that concatenation, prefix   *)
(* and equality are those of the real strings.                             *)
(***************************************************************************)
EXTENDS Integers, Sequences, FiniteSets, TLC

VARIABLES
    store,      \* the parameter store: sequence (backend order) of stored documents
    emptyAt,    \* backend's token table: the offset whose token is the empty string (0: none)
    handler,    \* name of the handler of the last invocation
    event,      \* its request
    fault,      \* what the backend did to its call
    calls,      \* the backend calls the invocation issued, in order
    outcome,    \* what the invocation returned or raised
    log,        \* the records the invocation logged, in order
    cpc,        \* paging caller: "idle", "paging", "done" or "failed"
    ccat,       \* paging caller: category being listed
    cns,        \* paging caller: namespace being listed
    collected,  \* paging caller: concatenation of the pages received so far
    ccalls,     \* paging caller: number of list invocations made
    reqA,       \* key audit: first (category, namespace, name)
    reqB,       \* key audit: second (category, namespace, name)
    keyA,       \* key audit: backend key issued for reqA
    keyB        \* key audit: backend key issued for reqB

vars == <<store, emptyAt, handler, event, fault, calls, outcome, log,
          cpc, ccat, cns, collected, ccalls, reqA, reqB, keyA, keyB>>

invocation == <<handler, event, fault, calls, outcome, log>>
caller == <<cpc, ccat, cns, collected, ccalls>>
audit == <<reqA, reqB, keyA, keyB>>

----------------------------------------------------------------------------
(* Bounds *)

MaxDocs == 3        \* at most this many documents in the store
PageSize == 2       \* the backend returns at most this many documents per page

----------------------------------------------------------------------------
(* Strings *)

IsPrefix(p, s) == Len(p) <= Len(s) /\ SubSeq(s, 1, Len(p)) = p

IsSuffix(p, s) == Len(p) <= Len(s) /\ SubSeq(s, Len(s) - Len(p) + 1, Len(s)) = p

SEP == <<"/">>

None == <<"<None>">>

EMPTY == <<>>

PROFILES_SSM_PARAMETER_PREFIX ==
    <<"/","e","m","r","_","l","a","u","n","c","h","/","e","m","r","_","p","r","o","f","i","l","e","s">>

CONFIGURATIONS_SSM_PARAMETER_PREFIX ==
    <<"/","e","m","r","_","l","a","u","n","c","h","/","c","l","u","s","t","e","r","_","c","o","n","f","i","g","u","r","a","t","i","o","n","s">>

\* the functions prefix pasted from the profiles'
FUNCTIONS_SSM_PARAMETER_PREFIX_pasted == PROFILES_SSM_PARAMETER_PREFIX

FUNCTIONS_SSM_PARAMETER_PREFIX ==
    <<"/","e","m","r","_","l","a","u","n","c","h","/","e","m","r","_","l","a","u","n","c","h","_","f","u","n","c","t","i","o","n","s">>

DEFAULT_NAMESPACE == <<"d","e","f","a","u","l","t">>

ProfileNotFoundLabel ==
    <<"P","r","o","f","i","l","e","N","o","t","F","o","u","n","d",":"," ">>

ConfigurationNotFoundLabel ==
    <<"C","o","n","f","i","g","u","r","a","t","i","o","n","N","o","t","F","o","u","n","d",":"," ">>

FunctionNotFoundLabel ==
    <<"F","u","n","c","t","i","o","n","N","o","t","F","o","u","n","d",":"," ">>

----------------------------------------------------------------------------
(* Categories and their per-category constants *)

Categories == {"Profile", "Configuration", "Function"}

PrefixOf(cat) ==
    CASE cat = "Profile" -> PROFILES_SSM_PARAMETER_PREFIX
      [] cat = "Configuration" -> CONFIGURATIONS_SSM_PARAMETER_PREFIX
      [] cat = "Function" -> FUNCTIONS_SSM_PARAMETER_PREFIX

NameFieldOf(cat) ==
    CASE cat = "Profile" -> "ProfileName"
      [] cat = "Configuration" -> "ConfigurationName"
      [] cat = "Function" -> "FunctionName"

TopLevelOf(cat) ==
    CASE cat = "Profile" -> "EMRProfiles"
      [] cat = "Configuration" -> "ClusterConfigurations"
      [] cat = "Function" -> "EMRLaunchFunctions"

GetHandlerOf(cat) ==
    CASE cat = "Profile" -> "get_profile_handler"
      [] cat = "Configuration" -> "get_configuration_handler"
      [] cat = "Function" -> "get_function_handler"

ListHandlerOf(cat) ==
    CASE cat = "Profile" -> "get_profiles_handler"
      [] cat = "Configuration" -> "get_configurations_handler"
      [] cat = "Function" -> "get_functions_handler"

EMRProfileNotFoundError == "EMRProfileNotFoundError"

ClusterConfigurationNotFoundError == "ClusterConfigurationNotFoundError"

EMRLaunchFunctionNotFoundError == "EMRLaunchFunctionNotFoundError"

NotFoundErrors ==
    {EMRProfileNotFoundError, ClusterConfigurationNotFoundError, EMRLaunchFunctionNotFoundError}

----------------------------------------------------------------------------
(* Python values *)

\* an exception object: its class, the backend error code it carries
\* (e.response['Error']['Code'], ClientError only) and its message
Exc(class, code, msg) == [class |-> class, code |-> code, msg |-> msg]

NoExc == Exc("", "", EMPTY)

ClientError(code) == Exc("ClientError", code, EMPTY)

Returned(v) == [kind |-> "return", value |-> v, error |-> NoExc]

Raised(e) == [kind |-> "raise", value |-> EMPTY, error |-> e]

NoOutcome == [kind |-> "none", value |-> EMPTY, error |-> NoExc]

\* dict.get(key) with the default left out
event_get_no_default(ev, key, default) == IF key \in DOMAIN ev THEN ev[key] ELSE EMPTY

\* dict.get(key, default)
event_get(ev, key, default) == IF key \in DOMAIN ev THEN ev[key] ELSE default

\* token tests gone wrong: never true, and true of everything but None
Truthy_never(s) == FALSE

Truthy_not_none(s) == s # None

\* truth value of an Optional[str]: None and '' are false
Truthy(s) == s # None /\ s # EMPTY

\* json.loads on the texts the store holds: two spellings of one document,
\* a second document, and a text that is not JSON
Texts == {"{\"type\":\"m5.xlarge\"}", "{\"type\": \"m5.xlarge\"}",
          "{\"type\":\"c5.large\"}", "{\"type\":"}

json_loads(text) ==
    CASE text = "{\"type\":\"m5.xlarge\"}" -> [ok |-> TRUE, value |-> [type |-> "m5.xlarge"]]
      [] text = "{\"type\": \"m5.xlarge\"}" -> [ok |-> TRUE, value |-> [type |-> "m5.xlarge"]]
      [] text = "{\"type\":\"c5.large\"}" -> [ok |-> TRUE, value |-> [type |-> "c5.large"]]
      [] OTHER -> [ok |-> FALSE, value |-> [type |-> ""]]

JSONDecodeError == Exc("JSONDecodeError", "", EMPTY)

\* the decoded values in the reverse of the backend's order
RECURSIVE LoadAllReversed(_)
LoadAllReversed(parameters) ==
    IF parameters = <<>> THEN [ok |-> TRUE, value |-> <<>>]
    ELSE LET head == json_loads(parameters[1].Value)
             rest == LoadAllReversed(Tail(parameters))
         IN  IF head.ok /\ rest.ok
             THEN [ok |-> TRUE, value |-> rest.value \o <<head.value>>]
             ELSE [ok |-> FALSE, value |-> <<>>]

\* [json.loads(p['Value']) for p in parameters]
RECURSIVE LoadAll(_)
LoadAll(parameters) ==
    IF parameters = <<>> THEN [ok |-> TRUE, value |-> <<>>]
    ELSE LET head == json_loads(parameters[1].Value)
             rest == LoadAll(Tail(parameters))
         IN  IF head.ok /\ rest.ok
             THEN [ok |-> TRUE, value |-> <<head.value>> \o rest.value]
             ELSE [ok |-> FALSE, value |-> <<>>]

\* the log records
InfoRecord(ev) == [level |-> "INFO", text |-> <<"Lambda metadata">>, event |-> ev, error |-> NoExc]

ErrorRecord(ev, e) ==
    [level |-> "ERROR", text |-> <<"Error processing event">>, event |-> ev, error |-> e]

NotFoundRecord(ev, msg) == [level |-> "ERROR", text |-> msg, event |-> ev, error |-> NoExc]

----------------------------------------------------------------------------
(* The parameter store (boto3.client('ssm')) *)

\* the list path without its trailing separator
ListPath_no_trailing_sep(ssm_parameter_prefix, namespace) ==
    ssm_parameter_prefix \o SEP \o namespace

\* f'{ssm_parameter_prefix}/{namespace}/'
ListPath(ssm_parameter_prefix, namespace) == ssm_parameter_prefix \o SEP \o namespace \o SEP

\* the item key without the separator between namespace and name
ItemName_no_sep(ssm_parameter_prefix, namespace, name) ==
    ssm_parameter_prefix \o SEP \o namespace \o name

\* f'{ssm_parameter_prefix}/{namespace}/{name}'
ItemName(ssm_parameter_prefix, namespace, name) ==
    ssm_parameter_prefix \o SEP \o namespace \o SEP \o name

\* a stored document: the (category, namespace, name) it was stored under
\* and its JSON text; the parameter's full name is the item key
Doc(cat, ns, name, text) == [cat |-> cat, ns |-> ns, name |-> name, Value |-> text]

ParameterName(d) == ItemName(PrefixOf(d.cat), d.ns, d.name)

Faults == {"none", "AccessDeniedException", "ParameterNotFound", "EndpointConnectionError"}

FaultExc(flt) ==
    IF flt = "EndpointConnectionError" THEN Exc("EndpointConnectionError", "", EMPTY)
    ELSE ClientError(flt)

\* the continuation token the backend issues for an offset, and its inverse
TokenOf(offset, eAt) == IF offset = eAt THEN EMPTY ELSE <<"t", ToString(offset)>>

OffsetOf(token, eAt) ==
    IF \E o \in 1..(MaxDocs + PageSize) : TokenOf(o, eAt) = token
    THEN CHOOSE o \in 1..(MaxDocs + PageSize) : TokenOf(o, eAt) = token
    ELSE -1

Min(a, b) == IF a <= b THEN a ELSE b

\* ssm.get_parameter(Name=...)
ssm_get_parameter(st, Name, flt) ==
    LET hits == SelectSeq(st, LAMBDA d : ParameterName(d) = Name)
    IN  IF flt # "none" THEN [ok |-> FALSE, response |-> <<>>, error |-> FaultExc(flt)]
        ELSE IF hits = <<>>
        THEN [ok |-> FALSE, response |-> <<>>, error |-> ClientError("ParameterNotFound")]
        ELSE [ok |-> TRUE,
              response |-> [Parameter |-> [Name |-> Name, Value |-> hits[1].Value]],
              error |-> NoExc]

\* ssm.get_parameters_by_path(Path=..., NextToken=...): the parameters whose
\* name the path is a prefix of, in store order, one page of them
ssm_get_parameters_by_path(st, params, flt, eAt) ==
    LET matching == SelectSeq(st, LAMBDA d : IsPrefix(params["Path"], ParameterName(d)))
        offset == IF "NextToken" \in DOMAIN params
                  THEN OffsetOf(params["NextToken"], eAt) ELSE 0
        last == Min(offset + PageSize, Len(matching))
        page == SubSeq(matching, offset + 1, last)
        parameters == [i \in 1..Len(page) |->
                          [Name |-> ParameterName(page[i]), Value |-> page[i].Value]]
    IN  IF flt # "none" THEN [ok |-> FALSE, response |-> <<>>, error |-> FaultExc(flt)]
        ELSE IF offset < 0
        THEN [ok |-> FALSE, response |-> <<>>, error |-> ClientError("InvalidNextToken")]
        ELSE IF offset + PageSize < Len(matching)
        THEN [ok |-> TRUE,
              response |-> ("Parameters" :> parameters) @@
                           ("NextToken" :> TokenOf(offset + PageSize, eAt)),
              error |-> NoExc]
        ELSE [ok |-> TRUE, response |-> ("Parameters" :> parameters), error |-> NoExc]

Call(op, params) == [op |-> op, params |-> params]

----------------------------------------------------------------------------
(* The two lookups *)

_get_parameter_values(ssm_parameter_prefix, top_level_return, namespace, next_token, st, flt, eAt) ==
    LET params == IF Truthy(next_token)
                  THEN ("Path" :> ListPath(ssm_parameter_prefix, namespace)) @@
                       ("NextToken" :> next_token)
                  ELSE ("Path" :> ListPath(ssm_parameter_prefix, namespace))
        result == ssm_get_parameters_by_path(st, params, flt, eAt)
        loaded == LoadAll(result.response["Parameters"])
        issued == <<Call("get_parameters_by_path", params)>>
    IN  IF ~result.ok THEN [calls |-> issued, ok |-> FALSE, value |-> <<>>, error |-> result.error]
        ELSE IF ~loaded.ok
        THEN [calls |-> issued, ok |-> FALSE, value |-> <<>>, error |-> JSONDecodeError]
        ELSE IF "NextToken" \in DOMAIN result.response
        THEN [calls |-> issued, ok |-> TRUE,
              value |-> (top_level_return :> loaded.value) @@
                        ("NextToken" :> result.response["NextToken"]),
              error |-> NoExc]
        ELSE [calls |-> issued, ok |-> TRUE,
              value |-> (top_level_return :> loaded.value), error |-> NoExc]

_get_parameter_value(ssm_parameter_prefix, name, namespace, st, flt) ==
    LET params == ("Name" :> ItemName(ssm_parameter_prefix, namespace, name))
        result == ssm_get_parameter(st, params["Name"], flt)
        loaded == json_loads(result.response.Parameter.Value)
        issued == <<Call("get_parameter", params)>>
    IN  IF ~result.ok THEN [calls |-> issued, ok |-> FALSE, value |-> <<>>, error |-> result.error]
        ELSE IF ~loaded.ok
        THEN [calls |-> issued, ok |-> FALSE, value |-> <<>>, error |-> JSONDecodeError]
        ELSE [calls |-> issued, ok |-> TRUE, value |-> loaded.value, error |-> NoExc]

----------------------------------------------------------------------------
(* The six handlers: what one invocation calls, returns or raises, and logs *)

get_profiles_handler(ev, st, flt, eAt) ==
    LET namespace == event_get(ev, "Namespace", DEFAULT_NAMESPACE)
        next_token == event_get(ev, "NextToken", None)
        r == _get_parameter_values(PROFILES_SSM_PARAMETER_PREFIX, "EMRProfiles",
                                   namespace, next_token, st, flt, eAt)
    IN  IF r.ok
        THEN [calls |-> r.calls, outcome |-> Returned(r.value), log |-> <<InfoRecord(ev)>>]
        ELSE [calls |-> r.calls, outcome |-> Raised(r.error),
              log |-> <<InfoRecord(ev), ErrorRecord(ev, r.error)>>]

\* get_profile_handler without the test of the error code
get_profile_handler_any_code(ev, st, flt) ==
    LET profile_name == event_get(ev, "ProfileName", EMPTY)
        namespace == event_get(ev, "Namespace", DEFAULT_NAMESPACE)
        r == _get_parameter_value(PROFILES_SSM_PARAMETER_PREFIX, profile_name, namespace, st, flt)
        message == ProfileNotFoundLabel \o namespace \o SEP \o profile_name
    IN  IF r.ok
        THEN [calls |-> r.calls, outcome |-> Returned(r.value), log |-> <<InfoRecord(ev)>>]
        ELSE IF r.error.class = "ClientError"
        THEN [calls |-> r.calls, outcome |-> Raised(Exc(EMRProfileNotFoundError, "", message)),
              log |-> <<InfoRecord(ev), NotFoundRecord(ev, message)>>]
        ELSE [calls |-> r.calls, outcome |-> Raised(r.error),
              log |-> <<InfoRecord(ev), ErrorRecord(ev, r.error)>>]

get_profile_handler(ev, st, flt) ==
    LET profile_name == event_get(ev, "ProfileName", EMPTY)
        namespace == event_get(ev, "Namespace", DEFAULT_NAMESPACE)
        r == _get_parameter_value(PROFILES_SSM_PARAMETER_PREFIX, profile_name, namespace, st, flt)
        message == ProfileNotFoundLabel \o namespace \o SEP \o profile_name
    IN  IF r.ok
        THEN [calls |-> r.calls, outcome |-> Returned(r.value), log |-> <<InfoRecord(ev)>>]
        ELSE IF r.error.class = "ClientError"
        THEN IF r.error.code = "ParameterNotFound"
             THEN [calls |-> r.calls, outcome |-> Raised(Exc(EMRProfileNotFoundError, "", message)),
                   log |-> <<InfoRecord(ev), NotFoundRecord(ev, message)>>]
             ELSE [calls |-> r.calls, outcome |-> Raised(r.error),
                   log |-> <<InfoRecord(ev), ErrorRecord(ev, r.error)>>]
        ELSE [calls |-> r.calls, outcome |-> Raised(r.error),
              log |-> <<InfoRecord(ev), ErrorRecord(ev, r.error)>>]

get_configurations_handler(ev, st, flt, eAt) ==
    LET namespace == event_get(ev, "Namespace", DEFAULT_NAMESPACE)
        next_token == event_get(ev, "NextToken", None)
        r == _get_parameter_values(CONFIGURATIONS_SSM_PARAMETER_PREFIX, "ClusterConfigurations",
                                   namespace, next_token, st, flt, eAt)
    IN  IF r.ok
        THEN [calls |-> r.calls, outcome |-> Returned(r.value), log |-> <<InfoRecord(ev)>>]
        ELSE [calls |-> r.calls, outcome |-> Raised(r.error),
              log |-> <<InfoRecord(ev), ErrorRecord(ev, r.error)>>]

get_configuration_handler(ev, st, flt) ==
    LET configuration_name == event_get(ev, "ConfigurationName", EMPTY)
        namespace == event_get(ev, "Namespace", DEFAULT_NAMESPACE)
        r == _get_parameter_value(CONFIGURATIONS_SSM_PARAMETER_PREFIX, configuration_name, namespace, st, flt)
        message == ConfigurationNotFoundLabel \o namespace \o SEP \o configuration_name
    IN  IF r.ok
        THEN [calls |-> r.calls, outcome |-> Returned(r.value), log |-> <<InfoRecord(ev)>>]
        ELSE IF r.error.class = "ClientError"
        THEN IF r.error.code = "ParameterNotFound"
             THEN [calls |-> r.calls, outcome |-> Raised(Exc(EMRProfileNotFoundError, "", message)),
                   log |-> <<InfoRecord(ev), NotFoundRecord(ev, message)>>]
             ELSE [calls |-> r.calls, outcome |-> Raised(r.error),
                   log |-> <<InfoRecord(ev), ErrorRecord(ev, r.error)>>]
        ELSE [calls |-> r.calls, outcome |-> Raised(r.error),
              log |-> <<InfoRecord(ev), ErrorRecord(ev, r.error)>>]

\* get_functions_handler with the get handlers' translation of "not found"
get_functions_handler_translating(ev, st, flt, eAt) ==
    LET namespace == event_get(ev, "Namespace", DEFAULT_NAMESPACE)
        next_token == event_get(ev, "NextToken", None)
        r == _get_parameter_values(FUNCTIONS_SSM_PARAMETER_PREFIX, "EMRLaunchFunctions",
                                   namespace, next_token, st, flt, eAt)
        message == FunctionNotFoundLabel \o namespace \o SEP
    IN  IF r.ok
        THEN [calls |-> r.calls, outcome |-> Returned(r.value), log |-> <<InfoRecord(ev)>>]
        ELSE IF r.error.class = "ClientError" /\ r.error.code = "ParameterNotFound"
        THEN [calls |-> r.calls,
              outcome |-> Raised(Exc(EMRLaunchFunctionNotFoundError, "", message)),
              log |-> <<InfoRecord(ev), NotFoundRecord(ev, message)>>]
        ELSE [calls |-> r.calls, outcome |-> Raised(r.error),
              log |-> <<InfoRecord(ev), ErrorRecord(ev, r.error)>>]

get_functions_handler(ev, st, flt, eAt) ==
    LET namespace == event_get(ev, "Namespace", DEFAULT_NAMESPACE)
        next_token == event_get(ev, "NextToken", None)
        r == _get_parameter_values(FUNCTIONS_SSM_PARAMETER_PREFIX, "EMRLaunchFunctions",
                                   namespace, next_token, st, flt, eAt)
    IN  IF r.ok
        THEN [calls |-> r.calls, outcome |-> Returned(r.value), log |-> <<InfoRecord(ev)>>]
        ELSE [calls |-> r.calls, outcome |-> Raised(r.error),
              log |-> <<InfoRecord(ev), ErrorRecord(ev, r.error)>>]

get_function_handler(ev, st, flt) ==
    LET function_name == event_get(ev, "FunctionName", EMPTY)
        namespace == event_get(ev, "Namespace", DEFAULT_NAMESPACE)
        r == _get_parameter_value(FUNCTIONS_SSM_PARAMETER_PREFIX, function_name, namespace, st, flt)
        message == FunctionNotFoundLabel \o namespace \o SEP \o function_name
    IN  IF r.ok
        THEN [calls |-> r.calls, outcome |-> Returned(r.value), log |-> <<InfoRecord(ev)>>]
        ELSE IF r.error.class = "ClientError"
        THEN IF r.error.code = "ParameterNotFound"
             THEN [calls |-> r.calls, outcome |-> Raised(Exc(EMRProfileNotFoundError, "", message)),
                   log |-> <<InfoRecord(ev), NotFoundRecord(ev, message)>>]
             ELSE [calls |-> r.calls, outcome |-> Raised(r.error),
                   log |-> <<InfoRecord(ev), ErrorRecord(ev, r.error)>>]
        ELSE [calls |-> r.calls, outcome |-> Raised(r.error),
              log |-> <<InfoRecord(ev), ErrorRecord(ev, r.error)>>]

----------------------------------------------------------------------------
(* Requests and stores *)

DEFAULT_2 == <<"d","e","f","a","u","l","t","-","2">>

SMALL == <<"s","m","a","l","l">>

LARGE == <<"l","a","r","g","e">>

EXTRA == <<"e","x","t","r","a">>

MISSING == <<"m","i","s","s","i","n","g">>

\* the places a document may be stored at, in the backend's order
DocPlaces ==
    << [cat |-> "Profile", ns |-> DEFAULT_NAMESPACE, name |-> SMALL],
       [cat |-> "Profile", ns |-> DEFAULT_2, name |-> SMALL],
       [cat |-> "Configuration", ns |-> DEFAULT_NAMESPACE, name |-> SMALL],
       [cat |-> "Profile", ns |-> DEFAULT_NAMESPACE, name |-> LARGE],
       [cat |-> "Function", ns |-> DEFAULT_NAMESPACE, name |-> SMALL],
       [cat |-> "Profile", ns |-> DEFAULT_NAMESPACE, name |-> EXTRA] >>

\* the store holding the places in S with the texts val gives them
StoreOf(S, val) ==
    LET kept == SelectSeq([i \in 1..Len(DocPlaces) |-> i], LAMBDA i : i \in S)
    IN  [j \in 1..Len(kept) |->
            Doc(DocPlaces[kept[j]].cat, DocPlaces[kept[j]].ns, DocPlaces[kept[j]].name,
                val[kept[j]])]

Stores ==
    UNION { { StoreOf(S, val) : val \in [S -> Texts] } :
            S \in { T \in SUBSET (1..Len(DocPlaces)) : Cardinality(T) <= MaxDocs } }

RequestNamespaces == {DEFAULT_NAMESPACE, DEFAULT_2}

RequestNames == {SMALL, LARGE, MISSING}

RequestTokens == {EMPTY, TokenOf(PageSize, 0), <<"t", "?">>}

\* a request: a mapping with the optional fields given
Request(fields, ns, name, token) ==
    [f \in fields |-> CASE f = "Namespace" -> ns
                        [] f = "NextToken" -> token
                        [] OTHER -> name]

GetEvents(cat) ==
    { Request(fields, ns, name, None) :
        fields \in SUBSET {"Namespace", NameFieldOf(cat)},
        ns \in RequestNamespaces, name \in RequestNames }

ListEvents ==
    { Request(fields, ns, None, token) :
        fields \in SUBSET {"Namespace", "NextToken"},
        ns \in RequestNamespaces, token \in RequestTokens }

NoRequest == [cat |-> "", ns |-> EMPTY, name |-> EMPTY]

----------------------------------------------------------------------------
(* Single invocations *)

Init ==
    /\ store \in Stores
    /\ emptyAt \in {0, PageSize}
    /\ handler = "none"
    /\ event = << >>
    /\ fault = "none"
    /\ calls = << >>
    /\ outcome = NoOutcome
    /\ log = << >>
    /\ cpc = "idle"
    /\ ccat = ""
    /\ cns = EMPTY
    /\ collected = << >>
    /\ ccalls = 0
    /\ reqA = NoRequest
    /\ reqB = NoRequest
    /\ keyA = None
    /\ keyB = None

\* one invocation of handler h with request ev, the backend behaving as flt;
\* invocations are synchronous, one at a time
Invoke(h, ev, flt, r) ==
    /\ handler' = h
    /\ event' = ev
    /\ fault' = flt
    /\ calls' = r.calls
    /\ outcome' = r.outcome
    /\ log' = r.log
    /\ UNCHANGED <<store, emptyAt>>

Idle == handler = "none" /\ cpc = "idle" /\ reqA = NoRequest

GetProfiles ==
    /\ Idle
    /\ \E ev \in ListEvents, flt \in Faults :
           /\ Invoke("get_profiles_handler", ev, flt, get_profiles_handler(ev, store, flt, emptyAt))
           /\ UNCHANGED <<caller, audit>>

GetProfile ==
    /\ Idle
    /\ \E ev \in GetEvents("Profile"), flt \in Faults :
           /\ Invoke("get_profile_handler", ev, flt, get_profile_handler(ev, store, flt))
           /\ UNCHANGED <<caller, audit>>

GetConfigurations ==
    /\ Idle
    /\ \E ev \in ListEvents, flt \in Faults :
           /\ Invoke("get_configurations_handler", ev, flt,
                     get_configurations_handler(ev, store, flt, emptyAt))
           /\ UNCHANGED <<caller, audit>>

GetConfiguration ==
    /\ Idle
    /\ \E ev \in GetEvents("Configuration"), flt \in Faults :
           /\ Invoke("get_configuration_handler", ev, flt, get_configuration_handler(ev, store, flt))
           /\ UNCHANGED <<caller, audit>>

GetFunctions ==
    /\ Idle
    /\ \E ev \in ListEvents, flt \in Faults :
           /\ Invoke("get_functions_handler", ev, flt, get_functions_handler(ev, store, flt, emptyAt))
           /\ UNCHANGED <<caller, audit>>

GetFunction ==
    /\ Idle
    /\ \E ev \in GetEvents("Function"), flt \in Faults :
           /\ Invoke("get_function_handler", ev, flt, get_function_handler(ev, store, flt))
           /\ UNCHANGED <<caller, audit>>

\* the invocation layer hands the response or the error to the requester
Respond ==
    /\ handler # "none"
    /\ cpc = "idle"
    /\ handler' = "none"
    /\ event' = << >>
    /\ fault' = "none"
    /\ calls' = << >>
    /\ outcome' = NoOutcome
    /\ log' = << >>
    /\ UNCHANGED <<store, emptyAt, caller, audit>>

Next ==
    \/ Respond
    \/ GetProfiles
    \/ GetProfile
    \/ GetConfigurations
    \/ GetConfiguration
    \/ GetFunctions
    \/ GetFunction

Spec == Init /\ [][Next]_vars

----------------------------------------------------------------------------
(* A requester paging through one namespace: first call without a token,  *)
(* then with the NextToken of the previous response, until a response     *)
(* carries none.                                                           *)

MaxCalls == 3       \* the requester gives up after this many list invocations

ListHandler(cat, ev, st, flt, eAt) ==
    CASE cat = "Profile" -> get_profiles_handler(ev, st, flt, eAt)
      [] cat = "Configuration" -> get_configurations_handler(ev, st, flt, eAt)
      [] cat = "Function" -> get_functions_handler(ev, st, flt, eAt)

\* the requester's bookkeeping of one response
Receive(cat, r) ==
    /\ ccalls' = ccalls + 1
    /\ IF r.outcome.kind = "return"
       THEN /\ collected' = collected \o r.outcome.value[TopLevelOf(cat)]
            /\ cpc' = IF "NextToken" \in DOMAIN r.outcome.value THEN "paging" ELSE "done"
       ELSE /\ collected' = collected
            /\ cpc' = "failed"

CallerStart ==
    /\ Idle
    /\ \E cat \in Categories, fields \in SUBSET {"Namespace"}, ns \in RequestNamespaces :
         LET ev == Request(fields, ns, None, None)
             r == ListHandler(cat, ev, store, "none", emptyAt)
         IN  /\ Invoke(ListHandlerOf(cat), ev, "none", r)
             /\ ccat' = cat
             /\ cns' = IF "Namespace" \in fields THEN ns ELSE DEFAULT_NAMESPACE
             /\ Receive(cat, r)
             /\ UNCHANGED audit

CallerNext ==
    /\ cpc = "paging"
    /\ ccalls < MaxCalls
    /\ LET ev == ("NextToken" :> outcome.value["NextToken"]) @@
                 [f \in DOMAIN event \ {"NextToken"} |-> event[f]]
           r == ListHandler(ccat, ev, store, "none", emptyAt)
       IN  /\ Invoke(ListHandlerOf(ccat), ev, "none", r)
           /\ Receive(ccat, r)
           /\ UNCHANGED <<ccat, cns, audit>>

NextPaging == CallerStart \/ CallerNext

SpecPaging == Init /\ [][NextPaging]_vars

----------------------------------------------------------------------------
(* Key audit: the backend keys the get handlers issue for two requests     *)

SLASH_NS == <<"a", "/", "b">>

AuditNamespaces == {DEFAULT_NAMESPACE, <<"a">>, SLASH_NS, EMPTY}

AuditNames == {<<"a">>, <<"c">>, <<"b", "/", "c">>, EMPTY}

AuditRequests == [cat : Categories, ns : AuditNamespaces, name : AuditNames]

GetHandler(cat, ev, st, flt) ==
    CASE cat = "Profile" -> get_profile_handler(ev, st, flt)
      [] cat = "Configuration" -> get_configuration_handler(ev, st, flt)
      [] cat = "Function" -> get_function_handler(ev, st, flt)

\* the key the category's get handler asks the backend for
IssuedKey(q) ==
    GetHandler(q.cat, ("Namespace" :> q.ns) @@ (NameFieldOf(q.cat) :> q.name),
               store, "none").calls[1].params["Name"]

InitKeys == Init /\ store = << >> /\ emptyAt = 0

KeyAudit ==
    /\ Idle
    /\ \E a \in AuditRequests, b \in AuditRequests :
         /\ a # b
         /\ reqA' = a
         /\ reqB' = b
         /\ keyA' = IssuedKey(a)
         /\ keyB' = IssuedKey(b)
    /\ UNCHANGED <<store, emptyAt, invocation, caller>>

NextKeys == KeyAudit

SpecKeys == InitKeys /\ [][NextKeys]_vars

----------------------------------------------------------------------------
(* What the last invocation was asked, and what the backend answered       *)

\* the namespace and the name a request addresses
ReqNamespace ==
    IF "Namespace" \in DOMAIN event THEN event["Namespace"] ELSE <<"d","e","f","a","u","l","t">>

ReqName(cat) == IF NameFieldOf(cat) \in DOMAIN event THEN event[NameFieldOf(cat)] ELSE <<>>

\* the positions of the documents stored under (cat, ns, name), under (cat, ns)
StoredUnder(cat, ns, name) ==
    { i \in 1..Len(store) : store[i].cat = cat /\ store[i].ns = ns /\ store[i].name = name }

NamespaceDocs(cat, ns) == SelectSeq(store, LAMBDA d : d.cat = cat /\ d.ns = ns)

\* the backend's answer to the call the invocation issued
BackendResult ==
    IF calls[1].op = "get_parameter"
    THEN ssm_get_parameter(store, calls[1].params["Name"], fault)
    ELSE ssm_get_parameters_by_path(store, calls[1].params, fault, emptyAt)

\* the failure the invocation met: the backend's error, or the decoding
\* error of a stored text that is not JSON; NoExc when it met none
Failure ==
    IF ~BackendResult.ok THEN BackendResult.error
    ELSE IF calls[1].op = "get_parameter"
    THEN IF json_loads(BackendResult.response.Parameter.Value).ok THEN NoExc ELSE JSONDecodeError
    ELSE IF LoadAll(BackendResult.response["Parameters"]).ok THEN NoExc ELSE JSONDecodeError

ErrorsLogged == SelectSeq(log, LAMBDA rec : rec.level = "ERROR")

IsGet == \E cat \in Categories : handler = GetHandlerOf(cat)

IsList == \E cat \in Categories : handler = ListHandlerOf(cat)

\* the not-found error kind each category declares
NotFoundErrorOf(cat) ==
    CASE cat = "Profile" -> EMRProfileNotFoundError
      [] cat = "Configuration" -> ClusterConfigurationNotFoundError
      [] cat = "Function" -> EMRLaunchFunctionNotFoundError

----------------------------------------------------------------------------
(* Claims *)

\* C1: for every category and every (namespace, name) with no stored
\* document, the category's get handler raises that category's own
\* NotFoundError, whose message carries the namespace and the name.
C1_NotFoundOwnError ==
    \A cat \in Categories :
        (/\ handler = GetHandlerOf(cat)
         /\ fault = "none"
         /\ StoredUnder(cat, ReqNamespace, ReqName(cat)) = {})
        => /\ outcome.kind = "raise"
           /\ outcome.error.class = NotFoundErrorOf(cat)
           /\ IsSuffix(ReqNamespace \o <<"/">> \o ReqName(cat), outcome.error.msg)

\* C2: a get handler asked for a name under which a document is stored, in
\* the request's namespace or in "default" when the request has none,
\* returns that document's decoded value, unwrapped, and reads the key of no
\* document stored under another (category, namespace, name).
C2_GetReturnsStoredDocument ==
    \A cat \in Categories :
        \A i \in StoredUnder(cat, ReqNamespace, ReqName(cat)) :
            (/\ handler = GetHandlerOf(cat)
             /\ fault = "none"
             /\ json_loads(store[i].Value).ok)
            => /\ outcome = Returned(json_loads(store[i].Value).value)
               /\ Len(calls) = 1
               /\ \A j \in 1..Len(store) :
                      j # i => calls[1].params["Name"] # ParameterName(store[j])

C2_Witness ==
    /\ handler = "get_function_handler"
    /\ "Namespace" \notin DOMAIN event
    /\ outcome.kind = "return"
    /\ outcome.value = [type |-> "c5.large"]
    /\ \E j \in 1..Len(store) : store[j].cat = "Profile" /\ store[j].name = ReqName("Function")

\* C3: a list call without token queries the path "{prefix}/{namespace}/"
\* and its result holds documents stored under exactly that namespace of the
\* category (the first page of them, in store order), none of another
\* namespace, even one whose name extends this one's.
C3_ListScopedToNamespace ==
    \A cat \in Categories :
        (/\ handler = ListHandlerOf(cat)
         /\ "NextToken" \notin DOMAIN event)
        => /\ Len(calls) = 1
           /\ calls[1].params = ("Path" :> (PrefixOf(cat) \o <<"/">> \o ReqNamespace \o <<"/">>))
           /\ outcome.kind = "return" =>
                 outcome.value[TopLevelOf(cat)] =
                     LoadAll(SubSeq(NamespaceDocs(cat, ReqNamespace), 1,
                                    Min(PageSize, Len(NamespaceDocs(cat, ReqNamespace))))).value

C3_Witness ==
    /\ handler = "get_profiles_handler"
    /\ "NextToken" \notin DOMAIN event
    /\ ReqNamespace = DEFAULT_NAMESPACE
    /\ outcome.kind = "return"
    /\ Len(outcome.value["EMRProfiles"]) = 1
    /\ NamespaceDocs("Profile", DEFAULT_2) # << >>

\* the tokens the backend issues while the namespace the requester pages
\* through is listed
IssuedTokens ==
    { TokenOf(o, emptyAt) :
        o \in { k \in 1..Len(NamespaceDocs(ccat, cns)) :
                  k % PageSize = 0 /\ k < Len(NamespaceDocs(ccat, cns)) } }

\* number of pages of the namespace the requester pages through
PagesToRead ==
    IF Len(NamespaceDocs(ccat, cns)) = 0 THEN 1
    ELSE (Len(NamespaceDocs(ccat, cns)) + PageSize - 1) \div PageSize

\* the pages received so far hold the first documents of the namespace, each
\* once and in order; the loop goes on exactly while responses carry a
\* token, and at its end every document has been received
PagedExactlyOnce ==
    /\ Len(collected) <= Len(NamespaceDocs(ccat, cns))
    /\ collected = LoadAll(SubSeq(NamespaceDocs(ccat, cns), 1, Len(collected))).value
    /\ ccalls <= PagesToRead
    /\ cpc = "paging" <=> (outcome.kind = "return" /\ "NextToken" \in DOMAIN outcome.value)
    /\ cpc = "done" => Len(collected) = Len(NamespaceDocs(ccat, cns))

\* C4 (as stated): whatever token values the backend issues, feeding each
\* response's NextToken to the next list call collects every document of the
\* namespace exactly once and stops at the first response without NextToken.
C4_PagingAnyToken == cpc # "idle" => PagedExactlyOnce

\* C4 (amended): the same, for the backends whose tokens are non-empty
\* strings.
C4_PagingNonEmptyTokens == (cpc # "idle" /\ EMPTY \notin IssuedTokens) => PagedExactlyOnce

C4_Witness ==
    /\ cpc = "done"
    /\ ccalls = 2
    /\ Len(collected) = PageSize + 1
    /\ EMPTY \notin IssuedTokens

\* C5: a list handler's response maps the category's collection key to the
\* decoded documents of the backend's page in the backend's order, and has a
\* NextToken exactly when the backend's result has one, with the same value.
C5_ListResponseShape ==
    \A cat \in Categories :
        (handler = ListHandlerOf(cat) /\ outcome.kind = "return")
        => /\ BackendResult.ok
           /\ DOMAIN outcome.value \subseteq {TopLevelOf(cat), "NextToken"}
           /\ TopLevelOf(cat) \in DOMAIN outcome.value
           /\ Len(outcome.value[TopLevelOf(cat)]) = Len(BackendResult.response["Parameters"])
           /\ \A i \in 1..Len(BackendResult.response["Parameters"]) :
                  outcome.value[TopLevelOf(cat)][i] =
                      json_loads(BackendResult.response["Parameters"][i].Value).value
           /\ "NextToken" \in DOMAIN outcome.value <=> "NextToken" \in DOMAIN BackendResult.response
           /\ "NextToken" \in DOMAIN outcome.value =>
                  outcome.value["NextToken"] = BackendResult.response["NextToken"]

C5_Witness ==
    /\ handler = "get_profiles_handler"
    /\ outcome.kind = "return"
    /\ "NextToken" \in DOMAIN outcome.value
    /\ outcome.value["EMRProfiles"] = <<[type |-> "m5.xlarge"], [type |-> "c5.large"]>>

\* C6: a failure other than the backend's "parameter not found" on a get is
\* logged once and the same error is raised again, not translated, not
\* retried, not suppressed; "parameter not found" on a get is logged once,
\* as the not-found message, and not by the generic branch as well.
C6_FailuresLoggedOnceAndReraised ==
    handler # "none" =>
        /\ Len(calls) = 1
        /\ IF Failure = NoExc
           THEN outcome.kind = "return" /\ ErrorsLogged = << >>
           ELSE IF IsGet /\ Failure = ClientError("ParameterNotFound")
           THEN /\ outcome.kind = "raise"
                /\ outcome.error.class \in NotFoundErrors
                /\ ErrorsLogged = <<NotFoundRecord(event, outcome.error.msg)>>
           ELSE /\ outcome = Raised(Failure)
                /\ outcome.error.class \notin NotFoundErrors
                /\ ErrorsLogged = <<ErrorRecord(event, Failure)>>

C6_Witness ==
    /\ handler = "get_profile_handler"
    /\ fault = "AccessDeniedException"
    /\ StoredUnder("Profile", ReqNamespace, ReqName("Profile")) = {}
    /\ outcome = Raised(ClientError("AccessDeniedException"))

\* C7: no list handler raises a NotFoundError: an empty backend page is a
\* successful empty collection, and a backend failure, "parameter not found"
\* included, is raised as it is.
C7_ListNeverNotFound ==
    \A cat \in Categories :
        handler = ListHandlerOf(cat) =>
            /\ outcome.kind = "raise" => outcome.error.class \notin NotFoundErrors
            /\ ~BackendResult.ok => outcome = Raised(BackendResult.error)
            /\ (BackendResult.ok /\ BackendResult.response["Parameters"] = << >>) =>
                   /\ outcome.kind = "return"
                   /\ outcome.value[TopLevelOf(cat)] = << >>

C7_Witness ==
    /\ handler = "get_functions_handler"
    /\ fault = "ParameterNotFound"
    /\ outcome = Raised(ClientError("ParameterNotFound"))

HasSep(str) == \E i \in 1..Len(str) : str[i] = "/"

\* C8 (as stated): two distinct (category, namespace, name), namespace and
\* name being any strings, never get the same backend key.
C8_KeysUnique == (reqA # NoRequest /\ reqA # reqB) => keyA # keyB

\* C8 (amended): two distinct (category, namespace, name) whose namespaces
\* do not contain the separator never get the same backend key, whatever the
\* names (empty, or containing the separator).
C8_KeysUniqueSepFreeNamespace ==
    (reqA # NoRequest /\ reqA # reqB /\ ~HasSep(reqA.ns) /\ ~HasSep(reqB.ns)) => keyA # keyB

C8_Witness ==
    /\ reqA.cat = reqB.cat
    /\ reqA.ns = <<"a">> /\ reqA.name = <<"b", "/", "c">>
    /\ reqB.ns = EMPTY /\ reqB.name = <<"a">>
    /\ keyA # keyB

\* the prefixes the specification names
SpecPrefixOf(cat) ==
    CASE cat = "Profile" -> <<"/","c","o","n","f","i","g","/","p","r","o","f","i","l","e","s">>
      [] cat = "Configuration" ->
             <<"/","c","o","n","f","i","g","/","c","l","u","s","t","e","r","-","c","o","n","f","i","g","u","r","a","t","i","o","n","s">>
      [] cat = "Function" ->
             <<"/","c","o","n","f","i","g","/","l","a","u","n","c","h","-","f","u","n","c","t","i","o","n","s">>

\* the prefixes the handlers are written with
CodePrefixOf(cat) ==
    CASE cat = "Profile" ->
             <<"/","e","m","r","_","l","a","u","n","c","h","/","e","m","r","_","p","r","o","f","i","l","e","s">>
      [] cat = "Configuration" ->
             <<"/","e","m","r","_","l","a","u","n","c","h","/","c","l","u","s","t","e","r","_","c","o","n","f","i","g","u","r","a","t","i","o","n","s">>
      [] cat = "Function" ->
             <<"/","e","m","r","_","l","a","u","n","c","h","/","e","m","r","_","l","a","u","n","c","h","_","f","u","n","c","t","i","o","n","s">>

\* the path or the name of the call the invocation issued
IssuedPath ==
    IF calls[1].op = "get_parameter" THEN calls[1].params["Name"] ELSE calls[1].params["Path"]

\* every issued path starts with the prefix pre gives the handler's
\* category and with no other category's, the prefixes are distinct and
\* none is a prefix of another, and no document of another category is read
PrefixesSeparateCategories(pre(_)) ==
    /\ \A c1, c2 \in Categories : c1 # c2 => ~IsPrefix(pre(c1), pre(c2))
    /\ \A cat \in Categories :
           handler \in {GetHandlerOf(cat), ListHandlerOf(cat)} =>
               /\ IsPrefix(pre(cat) \o <<"/">>, IssuedPath)
               /\ \A c2 \in Categories \ {cat} : ~IsPrefix(pre(c2) \o <<"/">>, IssuedPath)
               /\ \A i \in 1..Len(store) :
                      store[i].cat # cat => ~IsPrefix(IssuedPath, ParameterName(store[i]))

\* C9 (as stated): the prefixes are /config/profiles,
\* /config/cluster-configurations and /config/launch-functions; every path
\* issued starts with its category's, and no handler reads another category.
C9_SpecPrefixes == PrefixesSeparateCategories(SpecPrefixOf)

\* C9 (amended): the same with the prefixes /emr_launch/emr_profiles,
\* /emr_launch/cluster_configurations and /emr_launch/emr_launch_functions.
C9_CodePrefixes == PrefixesSeparateCategories(CodePrefixOf)

C9_Witness ==
    /\ handler = "get_configurations_handler"
    /\ outcome.kind = "return"
    /\ Len(outcome.value["ClusterConfigurations"]) = 1
    /\ NamespaceDocs("Profile", ReqNamespace) # << >>

\* C10 (as stated): a list request's NextToken, whatever its value (the
\* empty string included), is in the one backend query as it is, and the
\* query has no token only when the request has none.
C10_TokenPassedThrough ==
    IsList =>
        /\ Len(calls) = 1
        /\ "NextToken" \in DOMAIN event =>
               /\ "NextToken" \in DOMAIN calls[1].params
               /\ calls[1].params["NextToken"] = event["NextToken"]
        /\ "NextToken" \notin DOMAIN event => "NextToken" \notin DOMAIN calls[1].params

\* C10 (amended): a list request's NextToken that is not the empty string
\* is in the one backend query as it is, and the query has no token exactly
\* when the request has none or an empty one.
C10_NonEmptyTokenPassedThrough ==
    IsList =>
        /\ Len(calls) = 1
        /\ ("NextToken" \in DOMAIN event /\ event["NextToken"] # <<>>) =>
               /\ "NextToken" \in DOMAIN calls[1].params
               /\ calls[1].params["NextToken"] = event["NextToken"]
        /\ "NextToken" \notin DOMAIN calls[1].params <=>
               ("NextToken" \notin DOMAIN event \/ event["NextToken"] = <<>>)

C10_Witness ==
    /\ handler = "get_configurations_handler"
    /\ "NextToken" \in DOMAIN event
    /\ event["NextToken"] = <<"t", "?">>
    /\ calls[1].params["NextToken"] = <<"t", "?">>
    /\ outcome = Raised(ClientError("InvalidNextToken"))

====
